---- MODULE Spec2Model ----
(***************************************************************************)
(* A model of optik's EVM world orchestrator (optik/common/world.py):      *)
(* EVMWorld with its contract runners, call stack, transaction queue and   *)
(* the run() loop reacting to the engine's stop conditions.                *)
(*                                                                         *)
(* The symbolic engine (maat) is outside the repository.  Each rt.run() is *)
(* a nondeterministic choice of what the engine reports: an EXIT with some *)
(* status and return data, a suspension with an outgoing transaction, or   *)
(* another stop reason.  A Python exception leaves the world as it was at  *)
(* the raise; the model keeps that partial state and records the exception *)
(* in `ret`.                                                               *)
(*                                                                         *)
(* 256-bit words are modelled as sequences of naturals: <<0>> and <<1>>    *)
(* are the numbers 0 and 1, an account address is <<k>> with k >= 2, and   *)
(* the address of the contract created by d with nonce n is Append(d, n).  *)
(***************************************************************************)
EXTENDS Naturals, Sequences, FiniteSets, TLC

\* ------------------------------------------------------------------ bounds
\* Number of transactions ever passed to push_transaction.
MaxTx == 2
\* Number of outgoing transactions the engine ever emits (NONE stops).
MaxSub == 2
\* Number of transactions and outgoing transactions together.
MaxOps == 3
\* Nesting depth of message calls (length of call_stack).
MaxDepth == 3
\* Number of exceptions after which the user still calls run() again.
MaxRaise == 1

\* ------------------------------------------------------------------ inputs
\* Addresses the user deploys at or sends transactions to.
UserAddrs == { <<2>>, <<2, 1>> }
\* Sizes of return data / of the caller's return buffer.
DataSizes == { 0, 1 }
\* What the engine reports on EXIT: the TX_RES exit status and the size of
\* the return data (STOP and INVALID carry none).
ExitInfos ==
    { [status |-> s, size |-> 0] : s \in { "STOP", "INVALID" } }
    \cup { [status |-> s, size |-> n] : s \in { "RETURN", "REVERT" }, n \in DataSizes }
\* Outgoing transaction types (maat TX).
TxTypes == { "CALL", "CALLCODE", "DELEGATECALL", "CREATE", "CREATE2" }
\* Offsets of the caller's return buffer.
RetOffsets == { 32 }
\* The WorldMonitor objects the user may attach.
MonitorIds == { "m1" }
\* Stop reasons other than EXIT and NONE-with-outgoing-transaction: an event
\* hook, and NONE with no outgoing transaction.
OtherStops == { "HOOK", "NONE" }

Zero == <<0>>
One == <<1>>

\* ------------------------------------------------------------------ state
VARIABLES
    contracts,       \* EVMWorld.contracts: address -> ContractRunner
    call_stack,      \* EVMWorld.call_stack
    tx_queue,        \* EVMWorld.tx_queue
    current_tx,      \* EVMWorld.current_tx
    current_tx_num,  \* EVMWorld._current_tx_num
    root_engine,     \* EVMWorld.root_engine: its block number and timestamp
    events,          \* callbacks fired by _on_event, per event name
    monitors,        \* EVMWorld.monitors, in attachment order
    received,        \* per monitor object: the callbacks it received
    pc,              \* "idle": outside run(); "loop": at the head of run()'s loop
    ret,             \* how the last run() ended: a stop code or an exception
    hist,            \* history: identities and counters, never read by the code
    last,            \* history: what the last loop iteration did
    bridge           \* the corpus bridge: its JSON objects and what its calls returned

vars == << contracts, call_stack, tx_queue, current_tx, current_tx_num,
           root_engine,
           events, monitors, received, pc, ret, hist, last, bridge >>

\* None values, with the fields of the values they stand in for.
NoTx == [type |-> "None", recipient |-> Zero, ret_offset |-> 0, ret_len |-> 0]
NoResult == [from |-> 0, size |-> 0]
NoWrite == [at |-> 0, data |-> NoResult, done |-> FALSE]
NoAbstractTx ==
    [id |-> 0, recipient |-> Zero, block_num_inc |-> 0, block_timestamp_inc |-> 0]
NoBridge == [pc |-> "unused"]
NoLast == [op |-> "none", stepped |-> 0, popped |-> 0, caller |-> 0,
           status |-> "None", result |-> NoResult, out |-> NoTx,
           nested |-> FALSE, kind |-> "none", inited |-> TRUE, pushed |-> 0,
           reverted |-> 0, started |-> 0, addr |-> Zero, live_top |-> 0,
           caller_out |-> NoTx, created |-> Zero, order |-> << >>,
           resumed |-> 0, sub_tx |-> NoAbstractTx, seen |-> << >>]

\* The exceptions of world.py (WorldException with its message) and the
\* Python errors raised by a failed lookup.
WorldErrors == { "World:in_use", "World:no_more_tx", "World:no_recipient",
                 "World:no_callee", "World:unsupported", "World:not_implemented",
                 "World:overflow" }
PythonErrors == { "KeyError", "IndexError", "AttributeError" }

\* The world as one value, so that a handler is a composition of its steps.
\* `err` is the exception being raised ("" when none): once set, the remaining
\* steps of the handler leave the world alone.
World ==
    [contracts |-> contracts, call_stack |-> call_stack, tx_queue |-> tx_queue,
     current_tx |-> current_tx, current_tx_num |-> current_tx_num,
     root_engine |-> root_engine,
     events |-> events, monitors |-> monitors, received |-> received,
     hist |-> hist, last |-> NoLast, err |-> ""]

Raise(w, e) == IF w.err = "" THEN [w EXCEPT !.err = e] ELSE w

Top(s) == s[Len(s)]
Pop(s) == SubSeq(s, 1, Len(s) - 1)

\* ------------------------------------------------------- data structures
\* An EVMRuntime together with the EVM contract view of its engine.  `stack`
\* and `memory` hold what the world pushed and wrote since the frame last
\* ran; `kind` (which push created the frame) is history.
EVMRuntime(id, kind) ==
    [id |-> id, kind |-> kind, outgoing_transaction |-> NoTx,
     result_from_last_call |-> NoResult, stack |-> << >>, memory |-> NoWrite]

\* ContractRunner.__init__.  `code` is NoResult while the engine holds what
\* load() installed; `gen` (the number of runners deleted before this one was
\* made) tells two runners made at the same address apart.
ContractRunner(address, run_init_bytecode, gen) ==
    [address |-> address, nonce |-> 1, runtime_stack |-> << >>,
     initialized |-> run_init_bytecode, code |-> NoResult, gen |-> gen]

\* util.compute_new_contract_addr: Keccak of RLP([deployer, nonce]), an
\* injective function of its arguments.
compute_new_contract_addr(deployer, nonce) == Append(deployer, nonce)

\* Cst(256, v)
Cst256(v) == v

Remove(f, a) == [x \in DOMAIN f \ {a} |-> f[x]]
Without(s, x) == SelectSeq(s, LAMBDA y : y # x)

\* The exception of contracts[a].current_runtime: KeyError for a missing key
\* of the dict, IndexError for runtime_stack[-1] of an empty list.
LookupError(w, a) ==
    IF a \notin DOMAIN w.contracts THEN "KeyError"
    ELSE IF w.contracts[a].runtime_stack = << >> THEN "IndexError"
    ELSE ""

\* ContractRunner.current_runtime of the runner at a.
current_runtime(w, a) == Top(w.contracts[a].runtime_stack)

SetRuntime(w, a, rt) ==
    [w EXCEPT !.contracts[a].runtime_stack[Len(w.contracts[a].runtime_stack)] = rt]

\* EVMWorld._on_event: one callback per attached monitor; `events` counts
\* the calls of _on_event.
_on_event(w, event_name) ==
    [w EXCEPT !.events[event_name] = @ + 1,
              !.received = [m \in DOMAIN @ |->
                  IF \E i \in 1..Len(w.monitors) : w.monitors[i] = m
                  THEN [@[m] EXCEPT ![event_name] = @ + 1] ELSE @[m]]]

\* ContractRunner.push_runtime: a new engine, a new EVMRuntime on the stack.
push_runtime(w, a, kind) ==
    LET id == w.hist.frames + 1 IN
    [w EXCEPT !.contracts[a].runtime_stack = Append(@, EVMRuntime(id, kind)),
              !.hist.frames = id,
              !.hist.live = Append(@, id),
              !.last.pushed = id]

\* A push that also announces a transaction: what C13 rules out.
_push_runtime_as_transaction(w, a, kind) ==
    IF w.err # "" THEN w
    ELSE _on_event(_on_event(push_runtime(w, a, kind), "new_runtime"),
                   "transaction")

\* What a monitor sees of the world in on_new_runtime(rt): the runtime it is
\* given and the one world.current_engine belongs to (0 when that property
\* raises).
seen_by_monitors(w, rt) ==
    [w EXCEPT !.last.seen = Append(@,
        [rt |-> rt, monitors |-> Len(w.monitors),
         active |-> IF w.call_stack = << >> THEN 0
                    ELSE IF LookupError(w, Top(w.call_stack)) # "" THEN 0
                    ELSE current_runtime(w, Top(w.call_stack)).id])]

\* EVMWorld._push_runtime
_push_runtime(w, a, kind) ==
    IF w.err # "" THEN w
    ELSE LET w1 == push_runtime(w, a, kind)
         IN  seen_by_monitors(_on_event(w1, "new_runtime"), w1.last.pushed)

\* A pop that leaves the runtime on its runner: what C29 rules out.
pop_runtime_keeping(w) ==
    IF w.err # "" THEN w
    ELSE LET a == Top(w.call_stack) IN
         IF LookupError(w, a) # "" THEN Raise(w, LookupError(w, a))
         ELSE LET id == current_runtime(w, a).id IN
              [w EXCEPT !.hist.live = Without(@, id),
                        !.last.popped = id,
                        !.last.order = Append(@, "pop")]

\* ContractRunner.pop_runtime on self.current_contract
pop_runtime(w) ==
    IF w.err # "" THEN w
    ELSE LET a == Top(w.call_stack) IN
         IF LookupError(w, a) # "" THEN Raise(w, LookupError(w, a))
         ELSE LET id == current_runtime(w, a).id IN
              [w EXCEPT !.contracts[a].runtime_stack = Pop(@),
                        !.hist.live = Without(@, id),
                        !.last.popped = id,
                        !.last.order = Append(@, "pop")]

\* EVMRuntime.revert: restore the frame's snapshot.  `last.order` is the
\* order in which the iteration read the exit status, copied the result,
\* reverted and popped.
revert(w, a) ==
    IF w.err # "" THEN w
    ELSE [w EXCEPT !.last.reverted = current_runtime(w, a).id,
                   !.last.order = Append(@, "revert")]

\* contract(engine).stack.push(v) on the current runtime of the runner at a
stack_push(w, a, v) ==
    IF w.err # "" THEN w
    ELSE IF LookupError(w, a) # "" THEN Raise(w, LookupError(w, a))
    ELSE SetRuntime(w, a, [current_runtime(w, a) EXCEPT !.stack = Append(@, v)])

\* EVMWorld.deploy
deploy(w, address, run_init_bytecode) ==
    IF w.err # "" THEN w
    ELSE IF address \in DOMAIN w.contracts THEN Raise(w, "World:in_use")
    ELSE [w EXCEPT
            !.contracts = @ @@ (address :>
                ContractRunner(address, run_init_bytecode, w.hist.deleted))]

\* A queue served from its tail instead of its head: what C3 rules out.
next_transaction_lifo(w) ==
    [w EXCEPT !.current_tx = w.tx_queue[Len(w.tx_queue)],
              !.tx_queue = SubSeq(@, 1, Len(@) - 1)]

\* EVMWorld.next_transaction
next_transaction(w) ==
    [w EXCEPT !.current_tx = Head(w.tx_queue), !.tx_queue = Tail(@)]


\* ------------------------------------------------------------ run(): part (a)
\* EVMWorld._update_block_info on the root engine
_update_block_info(w, tx) ==
    IF w.err # "" THEN w
    ELSE [w EXCEPT !.root_engine.block_number = @ + tx.block_num_inc,
                   !.root_engine.block_timestamp = @ + tx.block_timestamp_inc]

\* A start that leaves the transaction at the head of the queue, uncounted,
\* when its recipient is not deployed: what C28 rules out.
start_transaction_retrying(w) ==
    LET w1 == [next_transaction(w) EXCEPT
                   !.current_tx_num = @ + 1,
                   !.hist.dequeued = Append(@, next_transaction(w).current_tx.id),
                   !.last.started = next_transaction(w).current_tx.id]
        contract_addr == w1.current_tx.recipient
    IN  IF contract_addr \notin DOMAIN w1.contracts
        THEN Raise([w EXCEPT !.last.started = Head(w.tx_queue).id],
                   "World:no_recipient")
        ELSE LET w2 == _push_runtime(w1, contract_addr, "tx")
                 w3 == [w2 EXCEPT !.call_stack = Append(@, contract_addr)]
                 w4 == _update_block_info(w3, w3.current_tx)
             IN  _on_event(w4, "transaction")

\* run(), lines 288-310: with an empty call stack, dequeue the next
\* transaction and create its runtime.
start_transaction(w) ==
    LET w1 == [next_transaction(w) EXCEPT
                   !.current_tx_num = @ + 1,
                   !.hist.dequeued = Append(@, next_transaction(w).current_tx.id),
                   !.last.started = next_transaction(w).current_tx.id]
        contract_addr == w1.current_tx.recipient
    IN  IF contract_addr \notin DOMAIN w1.contracts
        THEN Raise(w1, "World:no_recipient")
        ELSE LET w2 == _push_runtime(w1, contract_addr, "tx")
                 w3 == [w2 EXCEPT !.call_stack = Append(@, contract_addr)]
                 w4 == _update_block_info(w3, w3.current_tx)
             IN  _on_event(w4, "transaction")

\* The head of a loop iteration, up to `rt = self.current_contract.current_runtime`.
Begin(w) ==
    IF w.call_stack = << >> THEN start_transaction(w) ELSE w

\* The runtimes of every runner of w, and the one with a given id.
FramesIn(w) ==
    UNION { { w.contracts[a].runtime_stack[i] :
                i \in 1..Len(w.contracts[a].runtime_stack) } : a \in DOMAIN w.contracts }
FrameIn(w, id) == CHOOSE f \in FramesIn(w) : f.id = id

\* The frame whose outgoing transaction the frame `id` was pushed for: the
\* frame pushed just before it among those not popped yet (0: none).
IssuerOf(w, id) ==
    LET below == { i \in 2..Len(w.hist.live) : w.hist.live[i] = id }
    IN  IF below = { } THEN 0 ELSE w.hist.live[(CHOOSE i \in below : TRUE) - 1]

\* rt.run(): the engine consumes what the world pushed and wrote for it.
engine_run(w) ==
    LET a == Top(w.call_stack)
        rt == current_runtime(w, a)
        caller == IF rt.kind = "tx" THEN 0 ELSE IssuerOf(w, rt.id)
    IN  [SetRuntime(w, a, [rt EXCEPT !.stack = << >>, !.memory = NoWrite])
            EXCEPT !.hist.broke = 0,
                   !.last.resumed = w.hist.broke,
                   !.last.stepped = rt.id,
                   !.last.kind = rt.kind,
                   !.last.addr = a,
                   !.last.live_top = Top(w.hist.live),
                   !.last.caller = caller,
                   !.last.caller_out =
                       IF \E f \in FramesIn(w) : f.id = caller
                       THEN FrameIn(w, caller).outgoing_transaction ELSE NoTx]

\* ------------------------------------------------------------ run(): EXIT
\* run(), lines 323-334: the result goes to the caller's result_from_last_call.
set_result_in_caller(w, result) ==
    IF w.err # "" \/ Len(w.call_stack) < 2 THEN w
    ELSE LET a == w.call_stack[Len(w.call_stack) - 1] IN
         IF LookupError(w, a) # "" THEN Raise(w, LookupError(w, a))
         ELSE [SetRuntime(w, a, [current_runtime(w, a) EXCEPT
                                     !.result_from_last_call = result])
                  EXCEPT !.last.order = Append(@, "result")]

\* EVMWorld._handle_CREATE_after
_handle_CREATE_after(w, succeeded, result) ==
    IF w.err # "" THEN w
    ELSE LET cur == Top(w.call_stack)
             create_result == IF succeeded THEN w.contracts[cur].address ELSE Zero
             w1 == IF succeeded
                   THEN [w EXCEPT !.contracts[cur].initialized = TRUE,
                                  !.contracts[cur].code = result]
                   ELSE [w EXCEPT !.contracts = Remove(@, cur),
                                  !.hist.deleted = @ + 1]
         IN  IF Len(w1.call_stack) > 1
             THEN stack_push(w1, w1.call_stack[Len(w1.call_stack) - 1],
                             Cst256(create_result))
             ELSE w1

\* EVMWorld._handle_CALL_after, on the current runtime of the runner at a
_handle_CALL_after(w, a, succeeded) ==
    LET w1 == stack_push(w, a, Cst256(IF succeeded THEN One ELSE Zero))
        caller_contract == current_runtime(w1, a)
    IN  IF w1.err # "" THEN w1
        ELSE IF caller_contract.result_from_last_call = NoResult
        THEN Raise(w1, "AttributeError")
        ELSE IF caller_contract.outgoing_transaction.ret_len
                    < caller_contract.result_from_last_call.size
        THEN Raise(w1, "World:overflow")
        ELSE SetRuntime(w1, a, [caller_contract EXCEPT !.memory =
                 [at |-> caller_contract.outgoing_transaction.ret_offset,
                  data |-> caller_contract.result_from_last_call,
                  done |-> TRUE]])

\* run(), lines 352-368: the call result in the caller contract.
handle_call_result(w, succeeded) ==
    IF w.err # "" THEN w
    ELSE LET a == w.call_stack[Len(w.call_stack) - 1] IN
         IF LookupError(w, a) # "" THEN Raise(w, LookupError(w, a))
         ELSE IF current_runtime(w, a).outgoing_transaction = NoTx
         THEN Raise(w, "AttributeError")
         ELSE LET w1 == IF current_runtime(w, a).outgoing_transaction.type
                              \in { "CALL", "CALLCODE", "DELEGATECALL" }
                        THEN _handle_CALL_after(w, a, succeeded)
                        ELSE w
              IN  IF w1.err # "" THEN w1
                  ELSE SetRuntime(w1, a, [current_runtime(w1, a) EXCEPT
                                              !.outgoing_transaction = NoTx])

\* run(), line 371
pop_call_stack(w) ==
    IF w.err # "" THEN w ELSE [w EXCEPT !.call_stack = Pop(@)]

\* run(), lines 317-371: the EXIT branch for the frame just run.
exit_branch(w, status, size) ==
    LET cur == Top(w.call_stack)
        rt == current_runtime(w, cur)
        result == [from |-> rt.id, size |-> size]
        succeeded == status \in { "STOP", "RETURN" }
        is_msg_call_return == Len(w.call_stack) >= 2
        w0 == [w EXCEPT !.last.op = "exit", !.last.status = status,
                        !.last.order = Append(@, "status"),
                        !.last.result = result,
                        !.last.nested = is_msg_call_return,
                        !.last.inited = w.contracts[cur].initialized]
        w1 == set_result_in_caller(w0, result)
        w2 == IF status = "REVERT" THEN revert(w1, cur) ELSE w1
        w3 == IF ~ w2.contracts[cur].initialized
              THEN _handle_CREATE_after(w2, succeeded, result) ELSE w2
        w4 == pop_runtime(w3)
        w5 == IF is_msg_call_return THEN handle_call_result(w4, succeeded) ELSE w4
    IN  pop_call_stack(w5)

\* ------------------------------------------------------------ run(): NONE
\* The AbstractTx that _handle_CREATE and _handle_CALL make for the new
\* runtime: the outgoing transaction with the block increments of current_tx.
sub_transaction(w, recipient) ==
    [id |-> 0, recipient |-> recipient,
     block_num_inc |-> w.current_tx.block_num_inc,
     block_timestamp_inc |-> w.current_tx.block_timestamp_inc]

\* A CREATE2 handled as a CREATE: what C11 rules out.
_handle_CREATE_any(w) ==
    LET cur == Top(w.call_stack)
        nonce == w.contracts[cur].nonce
        new_contract_addr == compute_new_contract_addr(w.contracts[cur].address, nonce)
        w1 == [w EXCEPT !.contracts[cur].nonce = @ + 1,
                        !.last.created = new_contract_addr]
        w2 == deploy(w1, new_contract_addr, FALSE)
        w3 == _push_runtime(w2, new_contract_addr, "create")
    IN  IF w3.err # "" THEN w3
        ELSE [w3 EXCEPT !.call_stack = Append(@, new_contract_addr)]

\* A CREATE that leaves the creator's nonce as it was: what C10 rules out.
_handle_CREATE_same_nonce(w) ==
    LET cur == Top(w.call_stack)
        out_tx == current_runtime(w, cur).outgoing_transaction
        deployer == w.contracts[cur].address
        new_contract_addr == compute_new_contract_addr(deployer, w.contracts[cur].nonce)
    IN  IF out_tx.type # "CREATE" THEN Raise(w, "World:not_implemented")
        ELSE LET w1 == [w EXCEPT !.last.created = new_contract_addr,
                                 !.hist.creates = Append(@,
                                     [by |-> cur, gen |-> w.contracts[cur].gen,
                                      nonce |-> w.contracts[cur].nonce])]
                 w2 == deploy(w1, new_contract_addr, FALSE)
                 w3 == _push_runtime(w2, new_contract_addr, "create")
             IN  IF w3.err # "" THEN w3
                 ELSE [w3 EXCEPT !.call_stack = Append(@, new_contract_addr)]

\* EVMWorld._handle_CREATE.  out_tx.sender is the address of the contract
\* whose code issued the CREATE.
_handle_CREATE(w) ==
    LET cur == Top(w.call_stack)
        out_tx == current_runtime(w, cur).outgoing_transaction
        deployer == w.contracts[cur].address
        nonce == w.contracts[cur].nonce
        new_contract_addr == compute_new_contract_addr(deployer, nonce)
    IN  IF out_tx.type # "CREATE" THEN Raise(w, "World:not_implemented")
        ELSE LET w1 == [w EXCEPT !.contracts[cur].nonce = @ + 1,
                                 !.last.created = new_contract_addr,
                                 !.hist.creates = Append(@,
                                     [by |-> cur, gen |-> w.contracts[cur].gen,
                                      nonce |-> nonce])]
                 w2 == deploy(w1, new_contract_addr, FALSE)
                 create_tx == sub_transaction(w2, new_contract_addr)
                 w3 == _push_runtime(IF w2.err # "" THEN w2
                                     ELSE [w2 EXCEPT !.last.sub_tx = create_tx],
                                     new_contract_addr, "create")
             IN  IF w3.err # "" THEN w3
                 ELSE [w3 EXCEPT !.call_stack = Append(@, new_contract_addr)]

\* A message call that starts a block of its own: what C24 rules out.
_handle_CALL_updating_block(w) ==
    LET cur == Top(w.call_stack)
        out_tx == current_runtime(w, cur).outgoing_transaction
    IN  IF out_tx.recipient \notin DOMAIN w.contracts
        THEN Raise(w, "World:no_callee")
        ELSE LET tx == sub_transaction(w, out_tx.recipient)
                 w1 == _push_runtime([w EXCEPT !.last.sub_tx = tx],
                                     out_tx.recipient, "call")
             IN  _update_block_info(
                     [w1 EXCEPT !.call_stack =
                          Append(@, w1.contracts[out_tx.recipient].address)], tx)

\* EVMWorld._handle_CALL
_handle_CALL(w) ==
    LET cur == Top(w.call_stack)
        out_tx == current_runtime(w, cur).outgoing_transaction
    IN  IF out_tx.recipient \notin DOMAIN w.contracts
        THEN Raise(w, "World:no_callee")
        ELSE LET tx == sub_transaction(w, out_tx.recipient)
                 w1 == _push_runtime([w EXCEPT !.last.sub_tx = tx],
                                     out_tx.recipient, "call")
             IN  [w1 EXCEPT !.call_stack =
                      Append(@, w1.contracts[out_tx.recipient].address)]

\* A NONE branch that does not count the outgoing transaction: what C4 rules
\* out.
none_branch_uncounted(w, out_tx) ==
    LET cur == Top(w.call_stack)
        w1 == SetRuntime(w, cur, [current_runtime(w, cur) EXCEPT
                                      !.outgoing_transaction = out_tx])
        w2 == [w1 EXCEPT !.hist.dispatched = @ + 1,
                         !.last.op = "dispatch", !.last.out = out_tx]
    IN  IF out_tx.type \in { "CREATE", "CREATE2" } THEN _handle_CREATE(w2)
        ELSE IF out_tx.type = "CALL" THEN _handle_CALL(w2)
        ELSE Raise(w2, "World:unsupported")

\* run(), lines 373-386: the engine suspended the frame on out_tx.
none_branch(w, out_tx) ==
    LET cur == Top(w.call_stack)
        w1 == SetRuntime(w, cur, [current_runtime(w, cur) EXCEPT
                                      !.outgoing_transaction = out_tx])
        w2 == [w1 EXCEPT !.current_tx_num = @ + 1,
                         !.hist.dispatched = @ + 1,
                         !.last.op = "dispatch", !.last.out = out_tx]
    IN  IF out_tx.type \in { "CREATE", "CREATE2" } THEN _handle_CREATE(w2)
        ELSE IF out_tx.type = "CALL" THEN _handle_CALL(w2)
        ELSE Raise(w2, "World:unsupported")

\* A stop for another reason that throws the frame away: what C16 rules out.
break_branch_dropping(w) ==
    pop_call_stack(pop_runtime(
        [w EXCEPT !.last.op = "break", !.hist.broke = w.last.stepped]))

\* run(), lines 388-390
break_branch(w) ==
    [w EXCEPT !.last.op = "break", !.hist.broke = w.last.stepped]


\* EVMWorld.__init__
InitWorld ==
    /\ contracts = << >>
    /\ call_stack = << >>
    /\ tx_queue = << >>
    /\ current_tx = NoAbstractTx
    /\ current_tx_num = 0
    /\ root_engine = [block_number |-> 0, block_timestamp |-> 0]
    /\ events = [transaction |-> 0, new_runtime |-> 0]
    /\ monitors = << >>
    /\ received = [m \in MonitorIds |-> [transaction |-> 0, new_runtime |-> 0]]
    /\ pc = "idle"
    /\ ret = "none"
    /\ hist = [frames |-> 0, deleted |-> 0, txs |-> 0, dequeued |-> << >>,
               dispatched |-> 0, live |-> << >>, raised |-> 0,
               creates |-> << >>, broke |-> 0]
    /\ last = NoLast

Init ==
    /\ InitWorld
    /\ bridge = NoBridge

\* ------------------------------------------------------------------ actions
\* A loop that returns as soon as a frame exits: what C27 rules out.
Commit_returning_at_exit(w, stop) ==
    /\ contracts' = w.contracts
    /\ call_stack' = w.call_stack
    /\ tx_queue' = w.tx_queue
    /\ current_tx' = w.current_tx
    /\ current_tx_num' = w.current_tx_num
    /\ root_engine' = w.root_engine
    /\ events' = w.events
    /\ monitors' = w.monitors
    /\ received' = w.received
    /\ hist' = [w.hist EXCEPT !.raised = IF w.err # "" THEN @ + 1 ELSE @]
    /\ last' = w.last
    /\ UNCHANGED bridge
    /\ IF w.err # "" THEN pc' = "idle" /\ ret' = w.err
       ELSE IF w.last.op = "break" THEN pc' = "idle" /\ ret' = stop
       ELSE IF stop # "EXIT" /\ (w.tx_queue # << >> \/ w.call_stack # << >>)
            THEN pc' = "loop" /\ ret' = "running"
            ELSE pc' = "idle" /\ ret' = stop

\* The next state from the world a handler leaves.  An exception ends run();
\* otherwise the loop goes on while there is a transaction or a frame left.
Commit(w, stop) ==
    /\ contracts' = w.contracts
    /\ call_stack' = w.call_stack
    /\ tx_queue' = w.tx_queue
    /\ current_tx' = w.current_tx
    /\ current_tx_num' = w.current_tx_num
    /\ root_engine' = w.root_engine
    /\ events' = w.events
    /\ monitors' = w.monitors
    /\ received' = w.received
    /\ hist' = [w.hist EXCEPT !.raised = IF w.err # "" THEN @ + 1 ELSE @]
    /\ last' = w.last
    /\ UNCHANGED bridge
    /\ IF w.err # "" THEN pc' = "idle" /\ ret' = w.err
       ELSE IF w.last.op = "break" THEN pc' = "idle" /\ ret' = stop
       ELSE IF w.tx_queue # << >> \/ w.call_stack # << >>
            THEN pc' = "loop" /\ ret' = "running"
            ELSE pc' = "idle" /\ ret' = stop

\* The user's calls, between two calls of run().
UserCommit(w) ==
    /\ contracts' = w.contracts
    /\ tx_queue' = w.tx_queue
    /\ hist' = w.hist
    /\ last' = NoLast
    /\ UNCHANGED << call_stack, current_tx, current_tx_num,
                    root_engine, events, monitors,
                    received, pc, ret, bridge >>

\* EVMWorld.deploy, called by the user
Deploy(address, run_init_bytecode) ==
    /\ pc = "idle"
    /\ address \notin DOMAIN contracts
    /\ UserCommit(deploy(World, address, run_init_bytecode))

\* The transaction with number id that the user makes: its block increments
\* tell the transactions apart in the sums of the root engine.
AbstractTx(id, recipient) ==
    [id |-> id, recipient |-> recipient,
     block_num_inc |-> 2 ^ id, block_timestamp_inc |-> 3 ^ id]

\* EVMWorld.push_transaction
push_transaction(w, tx) == [w EXCEPT !.tx_queue = Append(@, tx)]

PushTransaction(recipient) ==
    /\ pc = "idle"
    /\ hist.txs < MaxTx
    /\ hist.txs + hist.dispatched < MaxOps
    /\ UserCommit(push_transaction([World EXCEPT !.hist.txs = @ + 1],
                                   AbstractTx(hist.txs + 1, recipient)))

\* A precondition of run() that looks at tx_queue only: what C12 rules out.
RunNothing_queue_only ==
    /\ pc = "idle"
    /\ tx_queue = << >>
    /\ ret' = "World:no_more_tx"
    /\ last' = NoLast
    /\ UNCHANGED << contracts, call_stack, tx_queue, current_tx, current_tx_num,
                    root_engine,
                    events, monitors, received, pc, hist, bridge >>

\* EVMWorld.attach_monitor; the exception for a monitor already attached
\* goes to the user and leaves the world as it was.
AttachMonitor(m) ==
    /\ pc = "idle"
    /\ IF \E i \in 1..Len(monitors) : monitors[i] = m
       THEN UNCHANGED monitors
       ELSE monitors' = Append(monitors, m)
    /\ last' = NoLast
    /\ UNCHANGED << contracts, call_stack, tx_queue, current_tx, current_tx_num,
                    root_engine,
                    events, received, pc, ret, hist, bridge >>

\* EVMWorld.detach_monitor; likewise for a monitor that is not attached.
DetachMonitor(m) ==
    /\ pc = "idle"
    /\ monitors' = SelectSeq(monitors, LAMBDA x : x # m)
    /\ last' = NoLast
    /\ UNCHANGED << contracts, call_stack, tx_queue, current_tx, current_tx_num,
                    root_engine,
                    events, received, pc, ret, hist, bridge >>

\* run() called with nothing to run: lines 282-283
RunNothing ==
    /\ pc = "idle"
    /\ tx_queue = << >> /\ call_stack = << >>
    /\ ret' = "World:no_more_tx"
    /\ last' = NoLast
    /\ UNCHANGED << contracts, call_stack, tx_queue, current_tx, current_tx_num,
                    root_engine,
                    events, monitors, received, pc, hist, bridge >>

\* run() called, entering the loop
Run ==
    /\ pc = "idle"
    /\ hist.raised <= MaxRaise
    /\ tx_queue # << >> \/ call_stack # << >>
    /\ pc' = "loop"
    /\ ret' = "running"
    /\ last' = NoLast
    /\ UNCHANGED << contracts, call_stack, tx_queue, current_tx, current_tx_num,
                    root_engine,
                    events, monitors, received, hist, bridge >>

\* An iteration that raises where it starts the transaction.
StartFails ==
    /\ pc = "loop"
    /\ Begin(World).err # ""
    /\ Commit([Begin(World) EXCEPT !.last.op = "start"], "NONE")

\* Whether the iteration gets to rt.run()
Runnable(w) ==
    /\ w.err = ""
    /\ LookupError(w, Top(w.call_stack)) = ""

\* An iteration that raises at self.current_contract.current_runtime.
FetchFails ==
    /\ pc = "loop"
    /\ Begin(World).err = ""
    /\ ~ Runnable(Begin(World))
    /\ Commit(Raise([Begin(World) EXCEPT !.last.op = "fetch"],
                    LookupError(Begin(World), Top(Begin(World).call_stack))), "NONE")

\* An iteration in which the engine stops with EXIT.
StepExit(status, size) ==
    /\ pc = "loop"
    /\ Runnable(Begin(World))
    /\ Commit(exit_branch(engine_run(Begin(World)), status, size), "EXIT")

\* An iteration in which the engine stops with NONE and an outgoing transaction.
StepOutgoing(out_tx) ==
    /\ pc = "loop"
    /\ Runnable(Begin(World))
    /\ hist.dispatched < MaxSub
    /\ hist.txs + hist.dispatched < MaxOps
    /\ Len(Begin(World).call_stack) < MaxDepth
    /\ Commit(none_branch(engine_run(Begin(World)), out_tx), "NONE")

\* An iteration in which the engine stops for another reason.
StepBreak(stop) ==
    /\ pc = "loop"
    /\ Runnable(Begin(World))
    /\ stop = "NONE" =>
          current_runtime(Begin(World), Top(Begin(World).call_stack))
              .outgoing_transaction = NoTx
    /\ Commit(break_branch(engine_run(Begin(World))), stop)

\* The outgoing transactions the engine may emit.
OutgoingTxs ==
    { [type |-> "CALL", recipient |-> r, ret_offset |-> o, ret_len |-> n] :
        r \in UserAddrs \cup DOMAIN contracts, o \in RetOffsets, n \in DataSizes }
    \cup { [NoTx EXCEPT !.type = t] : t \in TxTypes \ { "CALL" } }

Next ==
    \/ \E a \in UserAddrs, b \in BOOLEAN : Deploy(a, b)
    \/ \E a \in UserAddrs : PushTransaction(a)
    \/ RunNothing
    \/ Run
    \/ StartFails
    \/ FetchFails
    \/ \E info \in ExitInfos : StepExit(info.status, info.size)
    \/ \E o \in OutgoingTxs : StepOutgoing(o)
    \/ \E st \in OtherStops : StepBreak(st)

Spec == Init /\ [][Next]_vars

\* The world with monitors: the user also attaches and detaches them.
NextMonitored ==
    \/ Next
    \/ \E m \in MonitorIds : AttachMonitor(m)
    \/ \E m \in MonitorIds : DetachMonitor(m)

SpecMonitored == Init /\ [][NextMonitored]_vars

\* run() as a running program: one iteration of the loop of lines 287-390,
\* whatever its outcome.
Iteration ==
    \/ StartFails
    \/ FetchFails
    \/ \E info \in ExitInfos : StepExit(info.status, info.size)
    \/ \E o \in OutgoingTxs : StepOutgoing(o)
    \/ \E st \in OtherStops : StepBreak(st)

\* The interpreter goes on executing the loop and every rt.run() returns: an
\* iteration that stays possible is taken.  This is WF_vars(Iteration) with
\* ENABLED <<Iteration>>_vars written out: in the loop one of StartFails,
\* FetchFails and StepExit can always be taken, and outside it none can.
IterationFair == []<>(pc # "loop") \/ []<><<Iteration>>_vars

\* The engine emits finitely many outgoing transactions, to a bounded depth
\* (the guards of StepOutgoing).
SpecLive == Init /\ [][Next]_vars /\ IterationFair

\* ------------------------------------------------------- the corpus bridge
\* src/optik/echidna/interface.py.  A string is a sequence of characters, so
\* that formatting, parsing and Python's substring test are computed.
HexChars == << "0", "1", "2", "3", "4", "5", "6", "7",
               "8", "9", "a", "b", "c", "d", "e", "f" >>

\* Width of an address in hexadecimal digits: the 40 of f"0x{...:0{40}x}"
AddressChars == 40

\* Largest number of variables in a solver model
MaxVars == 2

RECURSIVE digits(_, _)
digits(n, base) ==
    IF n < base THEN << HexChars[n + 1] >>
    ELSE Append(digits(n \div base, base), HexChars[(n % base) + 1])

\* Python's str() of an int
str(n) == IF n < 0 THEN << "-" >> \o digits(0 - n, 10) ELSE digits(n, 10)

\* Python's hex() of a non-negative int
hex(n) == << "0", "x" >> \o digits(n, 16)

\* f"0x{n:0{40}x}": zeros on the left up to the width, never a truncation
format_address(n) ==
    LET d == digits(n, 16)
    IN  << "0", "x" >> \o [i \in 1..(AddressChars - Len(d)) |-> "0"] \o d

DigitValue(c) == CHOOSE v \in 0..15 : HexChars[v + 1] = c

RECURSIVE parse_digits(_, _)
parse_digits(s, base) ==
    IF s = << >> THEN 0
    ELSE parse_digits(Pop(s), base) * base + DigitValue(Top(s))

\* Python's int(s) and int(s, 16) on a well-formed literal
int(s, base) ==
    IF s[1] = "-" THEN 0 - parse_digits(SubSeq(s, 2, Len(s)), base)
    ELSE IF base = 16 /\ Len(s) > 2 /\ SubSeq(s, 1, 2) = << "0", "x" >>
         THEN parse_digits(SubSeq(s, 3, Len(s)), base)
         ELSE parse_digits(s, base)

\* Python's `a in b` on two strings
In(a, b) == \E i \in 0..(Len(b) - Len(a)) : SubSeq(b, i + 1, i + Len(a)) = a

\* The names of the symbolic variables.
top_arg_name(tx_name, i) == tx_name \o << "_", "a", "r", "g" >> \o str(i)
sub_arg_name(arg_name, i) == arg_name \o << "_" >> \o str(i)
sender_name(tx_name) == tx_name \o << "_", "s", "e", "n", "d", "e", "r" >>
value_name(tx_name) == tx_name \o << "_", "v", "a", "l", "u", "e" >>
block_num_inc_name(tx_name) ==
    tx_name \o << "_", "b", "l", "o", "c", "k", "_", "n", "u", "m",
                  "_", "i", "n", "c" >>
block_timestamp_inc_name(tx_name) ==
    tx_name \o << "_", "b", "l", "o", "c", "k", "_", "t", "i", "m", "e",
                  "s", "t", "a", "m", "p", "_", "i", "n", "c" >>

\* util.twos_complement_convert and util.int_to_bool
twos_complement_convert(v, bits) ==
    IF v >= 2 ^ (bits - 1) THEN v - 2 ^ bits ELSE v
int_to_bool(v) == v # 0

\* The arguments of the fuzzer's JSON, as json.loads returns them.
AbiUInt(bits, v) == [tag |-> "AbiUInt", contents |-> << bits, str(v) >>]
AbiInt(bits, v) == [tag |-> "AbiInt", contents |-> << bits, str(v) >>]
AbiBool(b) == [tag |-> "AbiBool", contents |-> b]
AbiAddress(n) == [tag |-> "AbiAddress", contents |-> format_address(n)]
AbiTuple(els) == [tag |-> "AbiTuple", contents |-> els]
AbiArrayDynamic(type, els) ==
    [tag |-> "AbiArrayDynamic", contents |-> << type, els >>]
AbiArray(n, type, els) == [tag |-> "AbiArray", contents |-> << n, type, els >>]
AbiUIntType(bits) == [tag |-> "AbiUIntType", contents |-> bits]
AbiBoolType == [tag |-> "AbiBoolType"]
AbiString(s) == [tag |-> "AbiString", contents |-> s]

Scalars == { "AbiUInt", "AbiInt", "AbiBool", "AbiAddress" }

\* ",".join(types)
RECURSIVE join(_)
join(types) ==
    IF types = << >> THEN << >>
    ELSE IF Len(types) = 1 THEN types[1]
    ELSE join(Pop(types)) \o << "," >> \o Top(types)

\* translate_argument: the ABI type string it returns and the exception it
\* raises ("" when none).  The value it returns with the type is left out.
\* AbiBytes arguments are not among the inputs.
RECURSIVE translate_argument(_)

\* The list comprehensions of parse_array and parse_tuple: the elements are
\* translated in order, and the first exception ends the comprehension.
translate_elements(els) ==
    LET r == [i \in 1..Len(els) |-> translate_argument(els[i])]
        bad == { i \in 1..Len(els) : r[i].err # "" }
    IN  [types |-> [i \in 1..Len(els) |-> r[i].type],
         err |-> IF bad = {} THEN ""
                 ELSE r[CHOOSE i \in bad : \A j \in bad : i <= j].err]

\* parse_array: the type of the first element stands for the array
parse_array(arr) ==
    LET r == translate_elements(arr)
    IN  IF r.err # "" THEN [type |-> << >>, err |-> r.err]
        ELSE IF arr = << >> THEN [type |-> << >>, err |-> "IndexError"]
        ELSE [type |-> r.types[1], err |-> ""]

translate_argument(arg) ==
    IF arg.tag = "AbiUInt"
    THEN [type |-> << "u", "i", "n", "t" >> \o str(arg.contents[1]), err |-> ""]
    ELSE IF arg.tag = "AbiInt"
    THEN [type |-> << "i", "n", "t" >> \o str(arg.contents[1]), err |-> ""]
    ELSE IF arg.tag = "AbiAddress"
    THEN [type |-> << "a", "d", "d", "r", "e", "s", "s" >>, err |-> ""]
    ELSE IF arg.tag = "AbiBool"
    THEN [type |-> << "b", "o", "o", "l" >>, err |-> ""]
    ELSE IF arg.tag = "AbiArray"
    THEN LET r == parse_array(arg.contents[3])
         IN  IF r.err # "" THEN r
             ELSE [type |-> r.type \o << "[" >> \o str(arg.contents[1])
                                  \o << "]" >>,
                   err |-> ""]
    ELSE IF arg.tag = "AbiArrayDynamic"
    THEN LET r == parse_array(arg.contents[2])
         IN  IF r.err # "" THEN r
             ELSE [type |-> r.type \o << "[", "]" >>, err |-> ""]
    ELSE IF arg.tag = "AbiTuple"
    THEN LET r == translate_elements(arg.contents)
         IN  IF r.err # "" THEN [type |-> << >>, err |-> r.err]
             ELSE [type |-> << "(" >> \o join(r.types) \o << ")" >>,
                   err |-> ""]
    ELSE [type |-> << >>, err |-> "Echidna:unsupported_argument"]

\* load_tx on the JSON value `json`: the exception it raises ("" when none)
\* and what it reads from the keys of the transaction.
load_tx(json, tx_name) ==
    LET call == json["_call"]
        args == IF Len(call.contents) > 1 THEN call.contents[2] ELSE << >>
        bad == { i \in 1..Len(args) : translate_argument(args[i]).err # "" }
        none == [err |-> "", ctx |-> << >>, recipient |-> 0, gas_limit |-> 0,
                 gas_price |-> 0]
    IN  IF call.tag # "SolCall"
        THEN [none EXCEPT !.err = "Echidna:unsupported_transaction"]
        ELSE IF bad # {}
        THEN [none EXCEPT !.err = translate_argument(
                  args[CHOOSE i \in bad : \A j \in bad : i <= j]).err]
        ELSE [err |-> "",
              ctx |-> << [name |-> block_num_inc_name(tx_name),
                          value |-> int(json["_delay"][2], 16)],
                         [name |-> block_timestamp_inc_name(tx_name),
                          value |-> int(json["_delay"][1], 16)],
                         [name |-> sender_name(tx_name),
                          value |-> int(json["_src"], 16)],
                         [name |-> value_name(tx_name),
                          value |-> int(json["_value"], 16)] >>,
              recipient |-> int(json["_dst"], 16),
              gas_limit |-> int(json["_gas'"], 16),
              gas_price |-> int(json["_gasprice'"], 16)]

\* VarContext.contains and VarContext.get; a model is a function from the
\* names of its variables to their values.
contains(new_model, name) == name \in DOMAIN new_model

\* The loops of update_argument over the elements of a tuple or an array,
\* from element i on: the elements are updated in place, one after the other,
\* until one raises.
RECURSIVE update_argument(_, _, _)
RECURSIVE update_elements(_, _, _, _)
update_elements(els, i, arg_name, new_model) ==
    IF i >= Len(els) THEN [els |-> els, err |-> ""]
    ELSE LET r == update_argument(els[i + 1], sub_arg_name(arg_name, i),
                                  new_model)
             done == [els EXCEPT ![i + 1] = r.arg]
         IN  IF r.err # "" THEN [els |-> done, err |-> r.err]
             ELSE update_elements(done, i + 1, arg_name, new_model)

\* update_argument: the argument after the call and the exception raised.
\* new_model.get raises for a variable the model does not hold.
update_argument(arg, arg_name, new_model) ==
    IF \A var \in DOMAIN new_model : ~ In(arg_name, var)
    THEN [arg |-> arg, err |-> ""]
    ELSE IF arg.tag \in Scalars /\ ~ contains(new_model, arg_name)
    THEN [arg |-> arg, err |-> "VarContext:unknown_variable"]
    ELSE IF arg.tag = "AbiUInt"
    THEN [arg |-> [arg EXCEPT !.contents[2] = str(new_model[arg_name])],
          err |-> ""]
    ELSE IF arg.tag = "AbiInt"
    THEN [arg |-> [arg EXCEPT !.contents[2] =
                      str(twos_complement_convert(new_model[arg_name],
                                                  arg.contents[1]))],
          err |-> ""]
    ELSE IF arg.tag = "AbiBool"
    THEN [arg |-> [arg EXCEPT !.contents = int_to_bool(new_model[arg_name])],
          err |-> ""]
    ELSE IF arg.tag = "AbiAddress"
    THEN [arg |-> [arg EXCEPT !.contents = hex(new_model[arg_name])],
          err |-> ""]
    ELSE IF arg.tag = "AbiTuple"
    THEN LET r == update_elements(arg.contents, 0, arg_name, new_model)
         IN  [arg |-> [arg EXCEPT !.contents = r.els], err |-> r.err]
    ELSE IF arg.tag = "AbiArray"
    THEN LET r == update_elements(arg.contents[3], 0, arg_name, new_model)
         IN  [arg |-> [arg EXCEPT !.contents[3] = r.els], err |-> r.err]
    ELSE IF arg.tag = "AbiArrayDynamic"
    THEN LET r == update_elements(arg.contents[2], 0, arg_name, new_model)
         IN  [arg |-> [arg EXCEPT !.contents[2] = r.els], err |-> r.err]
    ELSE [arg |-> arg, err |-> "Echidna:unsupported_argument"]

\* The loop of update_tx over the arguments of the call, from argument i on.
RECURSIVE update_arguments(_, _, _, _)
update_arguments(args, i, tx_name, new_model) ==
    IF i >= Len(args) THEN [els |-> args, err |-> ""]
    ELSE LET r == update_argument(args[i + 1], top_arg_name(tx_name, i),
                                  new_model)
             done == [args EXCEPT ![i + 1] = r.arg]
         IN  IF r.err # "" THEN [els |-> done, err |-> r.err]
             ELSE update_arguments(done, i + 1, tx_name, new_model)

\* A Python dict of a transaction holds its strings and, for "_call" and
\* "_delay", a reference to an object of the heap: dict.copy() copies the
\* references, not the objects.
Keys == { "_call", "_delay", "_src", "_dst", "_value", "_gas'", "_gasprice'" }
References == { "_call", "_delay" }
NoDict == << >>

\* The JSON value of a dict: what json.dump writes for it.
JsonValue(dict, heap) ==
    [k \in DOMAIN dict |->
        IF k \in References THEN heap[dict[k].ref] ELSE dict[k]]

\* update_tx: the dict it returns, the heap it leaves and the exception.
update_tx(tx_dict, heap, new_model, tx_name) ==
    LET copy == tx_dict
        call == heap[copy["_call"].ref]
    IN  IF Len(call.contents) < 2
        THEN [ret |-> NoDict, heap |-> heap, err |-> "IndexError"]
        ELSE
        LET r == update_arguments(call.contents[2], 0, tx_name, new_model)
            h1 == [heap EXCEPT ![copy["_call"].ref].contents[2] = r.els]
            delay == copy["_delay"].ref
            h2 == IF contains(new_model, block_num_inc_name(tx_name))
                  THEN [h1 EXCEPT ![delay][2] =
                           hex(new_model[block_num_inc_name(tx_name)])]
                  ELSE h1
            h3 == IF contains(new_model, block_timestamp_inc_name(tx_name))
                  THEN [h2 EXCEPT ![delay][1] =
                           hex(new_model[block_timestamp_inc_name(tx_name)])]
                  ELSE h2
            c1 == IF contains(new_model, sender_name(tx_name))
                  THEN [copy EXCEPT !["_src"] =
                           format_address(new_model[sender_name(tx_name)])]
                  ELSE copy
            c2 == IF contains(new_model, value_name(tx_name))
                  THEN [c1 EXCEPT !["_value"] =
                           hex(new_model[value_name(tx_name)])]
                  ELSE c1
        IN  IF r.err # "" THEN [ret |-> NoDict, heap |-> h1, err |-> r.err]
            ELSE [ret |-> c2, heap |-> h3, err |-> ""]

\* ---- the inputs of the bridge
\* The name store_new_tx_sequence gives the second transaction of a file.
tx1 == << "t", "x", "1" >>
tx2 == << "t", "x", "2" >>

\* The "_call" objects tried.
Calls ==
    << [tag |-> "SolCall", contents |-> << "f" >>],
       [tag |-> "SolCall", contents |-> << "f", << >> >>],
       [tag |-> "SolCall",
        contents |-> << "f", << AbiUInt(8, 5), AbiAddress(65536) >> >>],
       [tag |-> "SolCall",
        contents |-> << "f", << AbiBool(TRUE), AbiInt(8, 0 - 3) >> >>],
       [tag |-> "SolCall",
        contents |-> << "f", << AbiAddress(65536),
                                AbiTuple(<< AbiUInt(8, 5), AbiBool(FALSE) >>) >> >>],
       [tag |-> "SolCall",
        contents |-> << "f", << AbiArrayDynamic(AbiUIntType(8), << AbiUInt(8, 5) >>),
                                AbiString("s") >> >>],
       [tag |-> "SolCall",
        contents |-> << "f", [i \in 1..11 |-> AbiUInt(8, i)] >>],
       [tag |-> "NoCall", contents |-> << >>],
       [tag |-> "SolCall",
        contents |-> << "f", << AbiArray(2, AbiBoolType,
                                         << AbiBool(TRUE), AbiBool(FALSE) >>),
                                AbiTuple(<< AbiArrayDynamic(AbiUIntType(8),
                                                << AbiUInt(8, 5), AbiUInt(8, 6) >>),
                                            AbiInt(8, 0 - 3) >>) >> >>],
       [tag |-> "SolCall",
        contents |-> << "f", << AbiUInt(8, 5),
                                AbiArrayDynamic(AbiUIntType(8), << >>) >> >>],
       [tag |-> "SolCall",
        contents |-> << "f", << AbiArray(0, AbiBoolType, << >>) >> >>],
       [tag |-> "SolCall",
        contents |-> << "f", << AbiTuple(<< AbiUInt(8, 5),
                                            AbiArrayDynamic(AbiUIntType(8),
                                                << AbiString("s") >>) >>) >> >>] >>

\* The names and values a solver model may hold.
VarNames ==
    { top_arg_name(tx1, 0), top_arg_name(tx1, 1), top_arg_name(tx1, 10),
      sub_arg_name(top_arg_name(tx1, 1), 0), top_arg_name(tx2, 1),
      sender_name(tx1), value_name(tx1), block_num_inc_name(tx1),
      block_timestamp_inc_name(tx1) }
VarValues == { 1, 255 }
Models ==
    UNION { [S -> VarValues] :
              S \in { T \in SUBSET VarNames : Cardinality(T) <= MaxVars } }

\* One transaction of a corpus file after json.loads.
InitBridge ==
    /\ InitWorld
    /\ \E c \in 1..Len(Calls), m \in Models :
          LET heap == [call |-> Calls[c],
                       delay |-> << hex(3), hex(2) >>]
              dict == [k \in Keys |->
                         CASE k = "_call" -> [ref |-> "call"]
                           [] k = "_delay" -> [ref |-> "delay"]
                           [] k = "_src" -> format_address(65536)
                           [] k = "_dst" -> format_address(45054)
                           [] k = "_value" -> hex(0)
                           [] k = "_gas'" -> hex(255)
                           [] k = "_gasprice'" -> hex(0)]
          IN  bridge = [pc |-> "input", tx |-> dict, heap |-> heap,
                        new_model |-> m, original |-> JsonValue(dict, heap),
                        loaded |-> "", updated |-> [ret |-> NoDict, err |-> ""]]

WorldUnchanged ==
    UNCHANGED << contracts, call_stack, tx_queue, current_tx, current_tx_num,
                 root_engine,
                 events, monitors, received, pc, ret, hist, last >>

\* load_tx on the transaction, as load_tx_sequence calls it
LoadTx ==
    /\ bridge.pc = "input"
    /\ bridge' = [bridge EXCEPT
                    !.pc = "loaded",
                    !.loaded = load_tx(JsonValue(bridge.tx, bridge.heap), tx1).err]
    /\ WorldUnchanged

\* update_tx on the transaction, as store_new_tx_sequence calls it
UpdateTx ==
    /\ bridge.pc \in { "input", "loaded" }
    /\ LET r == update_tx(bridge.tx, bridge.heap, bridge.new_model, tx1)
       IN  bridge' = [bridge EXCEPT !.pc = "updated", !.heap = r.heap,
                                    !.updated = [ret |-> r.ret, err |-> r.err]]
    /\ WorldUnchanged

NextBridge == LoadTx \/ UpdateTx

SpecBridge == InitBridge /\ [][NextBridge]_vars

\* ---- the filename allocator
\* get_available_filename: the bound of its search
num_max == 100000

\* NEW_INPUT_PREFIX and the suffix store_new_tx_sequence passes
NEW_INPUT_PREFIX ==
    << "o", "p", "t", "i", "k", "_", "s", "o", "l", "v", "e", "d", "_",
       "i", "n", "p", "u", "t" >>
TxtSuffix == << ".", "t", "x", "t" >>

\* f"{prefix}_{num}{suffix}"
filename(prefix, num, suffix) == prefix \o << "_" >> \o str(num) \o suffix

\* The files in the directory: those numbered below `upto` and those
\* numbered in `also`.  os.path.exists on the name with number n:
path_exists(files, n) == n < files.upto \/ n \in files.also

\* The directories tried.
Directories ==
    { [upto |-> u, also |-> a] : u \in { 0, 1 }, a \in SUBSET { 0, 2, 3 } }
    \cup { [upto |-> num_max - 1, also |-> {}],
           [upto |-> num_max - 1, also |-> { num_max }],
           [upto |-> num_max, also |-> {}] }

\* The loop skipping a number: what C21 rules out.
next_num_skipping(num) == num + 2

\* get_available_filename, line 341
next_num(num) == num + 1

InitFilename ==
    /\ InitWorld
    /\ \E d \in Directories :
          bridge = [pc |-> "probing", files |-> d, num |-> 0,
                    returned |-> << >>, err |-> ""]

\* One iteration of the loop of get_available_filename: lines 340-341
Probe ==
    /\ bridge.pc = "probing"
    /\ path_exists(bridge.files, bridge.num) /\ bridge.num < num_max
    /\ bridge' = [bridge EXCEPT !.num = next_num(bridge.num)]
    /\ WorldUnchanged

\* The loop is left and the search is exhausted: lines 342-343
FilenameFails ==
    /\ bridge.pc = "probing"
    /\ ~ (path_exists(bridge.files, bridge.num) /\ bridge.num < num_max)
    /\ bridge.num >= num_max
    /\ bridge' = [bridge EXCEPT !.pc = "raised", !.err = "Generic:no_filename"]
    /\ WorldUnchanged

\* The loop is left with a free number: line 344
FilenameReturns ==
    /\ bridge.pc = "probing"
    /\ ~ (path_exists(bridge.files, bridge.num) /\ bridge.num < num_max)
    /\ bridge.num < num_max
    /\ bridge' = [bridge EXCEPT
                    !.pc = "returned",
                    !.returned = filename(NEW_INPUT_PREFIX, bridge.num, TxtSuffix)]
    /\ WorldUnchanged

NextFilename == Probe \/ FilenameFails \/ FilenameReturns

SpecFilename == InitFilename /\ [][NextFilename]_vars

\* ------------------------------------------------------------------ claims
StopCodes == { "EXIT", "NONE" } \cup OtherStops
AllFrames == FramesIn(World)
Occurrences(s, a) == Cardinality({ i \in 1..Len(s) : s[i] = a })
Exists(id) == \E f \in AllFrames : f.id = id
Frame(id) == FrameIn(World, id)
Raised == ret \in WorldErrors \cup PythonErrors
Succeeded == last.status \in { "STOP", "RETURN" }

\* call_stack and the runtime stacks describe the same frames.
Correspondence ==
    /\ \A i \in 1..Len(call_stack) : call_stack[i] \in DOMAIN contracts
    /\ \A a \in DOMAIN contracts :
          Occurrences(call_stack, a) = Len(contracts[a].runtime_stack)

\* C1: at the head of every iteration of run()'s loop and whenever run()
\* returns a stop code, every address of call_stack is deployed and occurs in
\* call_stack as many times as its runner has runtimes.
C1_Correspondence ==
    (pc = "loop" \/ (pc = "idle" /\ ret \in StopCodes)) => Correspondence

\* C2: LIFO nesting: the frame an iteration runs is the frame pushed last among
\* those not popped yet (so no frame is run while a frame pushed for its
\* outgoing transaction is alive), and the frame an iteration pops is that
\* same frame.
C2_Lifo ==
    /\ last.stepped # 0 => last.stepped = last.live_top
    /\ last.popped # 0 => last.popped = last.live_top

\* The ids of the queued transactions, in queue order.
QueuedIds == [i \in 1..Len(tx_queue) |-> tx_queue[i].id]

\* C3: FIFO: transactions become current_tx in the order they were pushed,
\* each at most once (the dequeued ones followed by the queued ones are
\* 1, 2, ... in order, and current_tx is the last one dequeued), and a
\* transaction leaves the queue only when call_stack is empty and no runner
\* has a runtime left.
C3_Fifo ==
    /\ [](/\ hist.dequeued \o QueuedIds = [i \in 1..hist.txs |-> i]
          /\ current_tx.id = IF hist.dequeued = << >> THEN 0
                             ELSE hist.dequeued[Len(hist.dequeued)])
    /\ [][Len(tx_queue') < Len(tx_queue) =>
            /\ call_stack = << >>
            /\ \A a \in DOMAIN contracts : contracts[a].runtime_stack = << >>
            /\ current_tx' = Head(tx_queue)
            /\ tx_queue' = Tail(tx_queue)]_vars

C3_Witness ==
    Len(hist.dequeued) = 2 /\ current_tx.id = 2 /\ last.started = 2

\* C4: current_tx_num never decreases, equals the number of transactions
\* dequeued plus the number of outgoing transactions dispatched by the NONE
\* branch, and an iteration that takes the EXIT branch adds nothing to it
\* beyond the transaction it may have dequeued.
C4_TxNum ==
    /\ [](current_tx_num = Len(hist.dequeued) + hist.dispatched)
    /\ [][/\ current_tx_num' >= current_tx_num
          /\ last'.op = "exit" =>
                current_tx_num' = current_tx_num
                    + (IF last'.started # 0 THEN 1 ELSE 0)]_vars

C4_Witness ==
    /\ last.op = "exit" /\ last.status = "REVERT" /\ last.started = 0
    /\ hist.dispatched >= 2 /\ Len(hist.dequeued) = 1 /\ current_tx_num = 3

\* C5: when a frame exits while len(call_stack) >= 2, its transaction result
\* is in result_from_last_call of the frame that issued the call.
C5_ResultInCaller ==
    (last.op = "exit" /\ last.nested /\ Exists(last.caller)) =>
        Frame(last.caller).result_from_last_call = last.result

\* C6: when the frame pushed for a CALL exits, the world has pushed exactly one
\* value on the issuing frame's stack: 1 if the exit status is STOP or RETURN,
\* 0 otherwise.
C6_CallFlag ==
    (last.op = "exit" /\ last.kind = "call" /\ Exists(last.caller)) =>
        Frame(last.caller).stack = << IF Succeeded THEN One ELSE Zero >>

\* C7: on return from a CALL, if the caller's ret_len is smaller than the size
\* of the callee's return data, run() fails with a World error and the
\* caller's memory is not written; otherwise the callee's return data is
\* written to the caller's memory at ret_offset.
C7_ReturnData ==
    (last.op = "exit" /\ last.kind = "call" /\ Exists(last.caller)) =>
        IF last.caller_out.ret_len < last.result.size
        THEN ret \in WorldErrors /\ Frame(last.caller).memory = NoWrite
        ELSE Frame(last.caller).memory =
                 [at |-> last.caller_out.ret_offset, data |-> last.result,
                  done |-> TRUE]

\* The frame the next iteration runs.
ActiveFrame == current_runtime(World, Top(call_stack))

\* C8: CREATE success: when the constructor frame of a contract created by
\* CREATE exits with STOP or RETURN, the runner stays in contracts with
\* initialized = true and the constructor's return data as its code, its
\* address is the single value pushed on the creating frame's stack, the
\* constructor frame and its call_stack entry are popped and the creating
\* frame is the next one to run.
C8_CreateSuccess ==
    (last.op = "exit" /\ last.kind = "create" /\ Succeeded) =>
        /\ ~ Raised
        /\ last.addr \in DOMAIN contracts
        /\ contracts[last.addr].initialized
        /\ contracts[last.addr].code = last.result
        /\ last.popped = last.stepped
        /\ ~ Exists(last.stepped)
        /\ call_stack # << >>
        /\ LookupError(World, Top(call_stack)) = ""
        /\ ActiveFrame.id = last.caller
        /\ ActiveFrame.stack = << last.addr >>

\* C9: CREATE failure: when the constructor frame of a contract created by
\* CREATE exits with another status, the EXIT branch completes with the new
\* address absent from contracts and popped from call_stack, 0 pushed on the
\* creating frame's stack, and the creating frame the next one to run.
C9_CreateFailure ==
    (last.op = "exit" /\ last.kind = "create" /\ ~ Succeeded) =>
        /\ ~ Raised
        /\ last.addr \notin DOMAIN contracts
        /\ call_stack # << >>
        /\ Top(call_stack) # last.addr
        /\ LookupError(World, Top(call_stack)) = ""
        /\ ActiveFrame.id = last.caller
        /\ ActiveFrame.stack = << Zero >>

\* Whether the runner at a is the same object in both states of a step.
SameRunner(a) ==
    /\ a \in DOMAIN contracts /\ a \in DOMAIN contracts'
    /\ contracts[a].gen = contracts'[a].gen

\* The step is the dispatch of a CREATE issued by the contract at a.
IssuesCreate(a) ==
    /\ last'.op = "dispatch" /\ last'.out.type = "CREATE" /\ last'.addr = a

\* C10: a runner's nonce starts at 1, never decreases, and grows by exactly 1
\* when, and only when, its contract issues a CREATE (whatever becomes of the
\* constructor); the nonce from which the address of the new contract is
\* derived is the one before the increment, and no two CREATEs of one runner
\* use the same nonce.
C10_Nonce ==
    /\ [](/\ \A a \in DOMAIN contracts : contracts[a].nonce >= 1
          /\ \A i, j \in 1..Len(hist.creates) :
                hist.creates[i] = hist.creates[j] => i = j)
    /\ [][/\ \A a \in DOMAIN contracts' \ DOMAIN contracts : contracts'[a].nonce = 1
          /\ \A a \in DOMAIN contracts :
                /\ SameRunner(a) /\ IssuesCreate(a) =>
                      /\ contracts'[a].nonce = contracts[a].nonce + 1
                      /\ hist'.creates = Append(hist.creates,
                            [by |-> a, gen |-> contracts[a].gen,
                             nonce |-> contracts[a].nonce])
                /\ SameRunner(a) /\ ~ IssuesCreate(a) =>
                      contracts'[a].nonce = contracts[a].nonce]_vars

C10_Witness ==
    /\ Len(hist.creates) = 2
    /\ hist.creates[1].by = hist.creates[2].by
    /\ hist.creates[1].gen = hist.creates[2].gen
    /\ hist.creates[1].nonce = 1 /\ hist.creates[2].nonce = 2
    /\ hist.creates[1].by \in DOMAIN contracts
    /\ contracts[hist.creates[1].by].nonce = 3

\* The outgoing transaction types run() does not support.
Unsupported == { "CALLCODE", "DELEGATECALL", "CREATE2" }

\* C11: when the active frame stops with an outgoing transaction of type
\* CALLCODE, DELEGATECALL or CREATE2, run() fails with a World error, and
\* between the moment the frame was fetched and the raise no runtime is
\* pushed, call_stack gets no entry, contracts gets no runner and no nonce
\* changes.
C11_Unsupported ==
    [][(last'.op = "dispatch" /\ last'.out.type \in Unsupported) =>
          /\ ret' \in WorldErrors
          /\ pc' = "idle"
          /\ call_stack' = Begin(World).call_stack
          /\ hist'.frames = Begin(World).hist.frames
          /\ DOMAIN contracts' = DOMAIN contracts
          /\ \A a \in DOMAIN contracts :
                /\ Len(contracts'[a].runtime_stack)
                      = Len(Begin(World).contracts[a].runtime_stack)
                /\ contracts'[a].nonce = contracts[a].nonce]_vars

C11_Witness ==
    /\ last.op = "dispatch" /\ last.out.type = "CREATE2"
    /\ ret = "World:not_implemented"
    /\ Len(call_stack) >= 2

\* The step is a call of run(): the only steps taken outside run() that
\* change pc or ret.
RunCalled == pc = "idle" /\ (pc' # pc \/ ret' # ret)

\* C12: run() called with tx_queue and call_stack both empty fails with the
\* "no more transactions" World error and leaves current_tx, current_tx_num,
\* contracts (with every runtime stack) and the callbacks fired unchanged;
\* run() called with either non-empty enters its loop, and no iteration of
\* the loop fails with that error.
C12_RunIdle ==
    [][/\ RunCalled =>
            IF tx_queue = << >> /\ call_stack = << >>
            THEN /\ ret' = "World:no_more_tx" /\ pc' = "idle"
                 /\ UNCHANGED << current_tx, current_tx_num,
                                 root_engine, contracts, events,
                                 tx_queue, call_stack >>
            ELSE ret' # "World:no_more_tx" /\ pc' = "loop"
       /\ pc = "loop" => ret' # "World:no_more_tx"
       /\ (ret' = "World:no_more_tx" /\ ret # "World:no_more_tx") =>
            tx_queue = << >> /\ call_stack = << >>]_vars

C12_Witness ==
    /\ ret = "World:no_more_tx"
    /\ current_tx_num = 2 /\ events.transaction = 1 /\ events.new_runtime = 2
    /\ contracts # << >> /\ call_stack = << >> /\ tx_queue = << >>

Attached(m) == \E i \in 1..Len(monitors) : monitors[i] = m
\* run() has returned with nothing left to run.
Drained ==
    pc = "idle" /\ ret = "EXIT" /\ tx_queue = << >> /\ call_stack = << >>

\* C13 as stated: on_transaction is fired once per transaction dequeued,
\* on_new_runtime once per runtime pushed, so that once run() has drained a
\* queue of n transactions that issued m outgoing transactions, n
\* on_transaction and n + m on_new_runtime callbacks have been fired.
C13_PerDequeued ==
    /\ events.transaction = Len(hist.dequeued)
    /\ events.new_runtime = hist.frames
    /\ Drained => events.new_runtime = Len(hist.dequeued) + hist.dispatched

\* C13, amended: on_transaction is fired once per transaction dequeued whose
\* recipient is deployed and in no other iteration; on_new_runtime is fired
\* once per runtime pushed; each callback goes to exactly the monitors
\* attached at that moment; and once run() has drained a queue of n
\* transactions that issued m outgoing transactions without ever raising, n
\* on_transaction and n + m on_new_runtime callbacks have been fired.
C13_MonitorEvents ==
    /\ [](/\ events.new_runtime = hist.frames
          /\ events.transaction <= Len(hist.dequeued)
          /\ (Drained /\ hist.raised = 0) =>
                /\ events.transaction = Len(hist.dequeued)
                /\ events.new_runtime = Len(hist.dequeued) + hist.dispatched)
    /\ [][/\ events'.transaction = events.transaction +
                (IF last'.started # 0 /\ ret' # "World:no_recipient"
                 THEN 1 ELSE 0)
          /\ \A m \in MonitorIds : \A e \in { "transaction", "new_runtime" } :
                received'[m][e] = received[m][e] +
                    (IF Attached(m) THEN events'[e] - events[e] ELSE 0)]_vars

C13_Witness ==
    /\ Drained /\ hist.raised = 1 /\ Len(hist.dequeued) = 2
    /\ hist.dispatched = 1
    /\ Attached("m1")
    /\ received["m1"] = [transaction |-> 1, new_runtime |-> 2]
    /\ events = [transaction |-> 1, new_runtime |-> 2]

\* C14: a runner with initialized = false has exactly one runtime, its
\* constructor frame, and when a runner is created uninitialized its address
\* is at the top of call_stack.
C14_Uninitialized ==
    /\ [](\A a \in DOMAIN contracts :
            ~ contracts[a].initialized =>
                /\ Len(contracts[a].runtime_stack) = 1
                /\ contracts[a].runtime_stack[1].kind = "create")
    /\ [][\A a \in DOMAIN contracts' \ DOMAIN contracts :
            ~ contracts'[a].initialized =>
                call_stack' # << >> /\ Top(call_stack') = a]_vars

\* The positions of a step in the order of the last iteration.
Positions(what) == { i \in 1..Len(last.order) : last.order[i] = what }

\* C15: on an EXIT step revert() is called on the exiting frame if and only
\* if the exit status is REVERT, once, after the exit status was read and the
\* result copied to the caller, and before the frame is popped; it is called
\* on no other frame.
C15_Revert ==
    /\ last.reverted # 0 => last.op = "exit" /\ last.reverted = last.stepped
    /\ last.op = "exit" =>
          /\ Cardinality(Positions("revert"))
                = (IF last.status = "REVERT" THEN 1 ELSE 0)
          /\ \A r \in Positions("revert") :
                /\ \A i \in Positions("status") : i < r
                /\ last.nested => \E i \in Positions("result") : i < r
                /\ \A i \in Positions("pop") : r < i

\* The identities of the runtimes of a runner, bottom first.
FrameIds(runner) ==
    [i \in 1..Len(runner.runtime_stack) |-> runner.runtime_stack[i].id]

\* C16: when the frame stops for a reason other than EXIT and other than NONE
\* with an outgoing transaction, run() returns that stop code at once and
\* tx_queue, call_stack, contracts, every runtime stack and current_tx_num are
\* as they were when the frame was fetched; the next iteration, in a
\* following run(), runs the same frame, dequeues nothing, fires no
\* on_transaction, and fires on_new_runtime only for a runtime it pushes for
\* an outgoing transaction.
C16_OtherStop ==
    [][/\ last'.op = "break" =>
            /\ pc' = "idle" /\ ret' \in OtherStops
            /\ tx_queue' = Begin(World).tx_queue
            /\ call_stack' = Begin(World).call_stack
            /\ current_tx_num' = Begin(World).current_tx_num
            /\ DOMAIN contracts' = DOMAIN contracts
            /\ \A a \in DOMAIN contracts :
                  /\ FrameIds(contracts'[a]) = FrameIds(Begin(World).contracts[a])
                  /\ contracts'[a].nonce = contracts[a].nonce
                  /\ contracts'[a].initialized = contracts[a].initialized
                  /\ contracts'[a].code = contracts[a].code
       /\ (hist.broke # 0 /\ pc = "idle") =>
            /\ call_stack' = call_stack
            /\ hist'.broke = hist.broke
            /\ pc' = "idle" \/ (pc' = "loop" /\ tx_queue' = tx_queue)
       /\ (hist.broke # 0 /\ pc = "loop") =>
            /\ last'.stepped = hist.broke
            /\ last'.started = 0
            /\ tx_queue' = tx_queue /\ current_tx' = current_tx
            /\ events'.transaction = events.transaction
            /\ events'.new_runtime = events.new_runtime +
                  (IF last'.op = "dispatch" /\ last'.pushed # 0 THEN 1 ELSE 0)
      ]_vars

C16_Witness ==
    /\ last.resumed # 0 /\ last.stepped = last.resumed
    /\ last.op = "exit" /\ last.kind = "call" /\ ~ Raised

\* C23: an outgoing transaction is dispatched once.  A frame that is stepped
\* after frames were pushed above it, all of them popped since, starts with
\* no outgoing transaction; and the exit of a nested frame that raises
\* nothing leaves no outgoing transaction in the frame below it.
C23_DispatchedOnce ==
    [][/\ ( /\ last'.stepped # 0
            /\ last'.stepped = last'.live_top
            /\ last'.stepped < Begin(World).hist.frames ) =>
            FrameIn(Begin(World), last'.stepped).outgoing_transaction = NoTx
       /\ (last'.op = "exit" /\ last'.nested /\ ret' \in StopCodes \cup { "running" }) =>
            \A f \in FramesIn([contracts |-> contracts']) :
                f.id = Top(hist'.live) => f.outgoing_transaction = NoTx
      ]_vars

\* The block increments of the transactions with the given numbers, summed.
RECURSIVE SumBlockNumInc(_)
SumBlockNumInc(ids) ==
    IF ids = << >> THEN 0
    ELSE AbstractTx(Head(ids), Zero).block_num_inc + SumBlockNumInc(Tail(ids))

RECURSIVE SumBlockTimestampInc(_)
SumBlockTimestampInc(ids) ==
    IF ids = << >> THEN 0
    ELSE AbstractTx(Head(ids), Zero).block_timestamp_inc
           + SumBlockTimestampInc(Tail(ids))

\* C24 as stated: the block increments are applied once for every top-level
\* transaction, so the block number of the root engine is the sum of the
\* block_num_inc of the transactions dequeued.
C24_PerTransaction ==
    /\ root_engine.block_number = SumBlockNumInc(hist.dequeued)
    /\ root_engine.block_timestamp = SumBlockTimestampInc(hist.dequeued)

\* C24, amended: the block increments are applied to the root engine once
\* for every top-level transaction whose recipient is deployed, when it is
\* started and with the increments of that transaction; no other step
\* changes the block info, the transactions made for nested CALLs and
\* CREATEs carry the increments of current_tx, and while run() has raised
\* nothing the block info is the sum over the transactions dequeued.
C24_BlockInfo ==
    /\ [](hist.raised = 0 => C24_PerTransaction)
    /\ [][/\ IF pc = "loop" /\ call_stack = << >> /\ Begin(World).err = ""
              THEN /\ current_tx' = Head(tx_queue)
                   /\ root_engine' =
                        [block_number |-> root_engine.block_number
                                            + current_tx'.block_num_inc,
                         block_timestamp |-> root_engine.block_timestamp
                                            + current_tx'.block_timestamp_inc]
              ELSE root_engine' = root_engine
          /\ (last'.op = "dispatch" /\ ret' = "running") =>
                /\ current_tx' = Begin(World).current_tx
                /\ last'.sub_tx.block_num_inc = current_tx'.block_num_inc
                /\ last'.sub_tx.block_timestamp_inc
                      = current_tx'.block_timestamp_inc
         ]_vars

C24_Witness ==
    /\ last.op = "dispatch" /\ last.pushed # 0 /\ Len(call_stack) >= 2
    /\ Len(hist.dequeued) = 2
    /\ root_engine = [block_number |-> 6, block_timestamp |-> 12]
    /\ last.sub_tx.block_num_inc = 4

\* C25: when on_new_runtime(rt) is invoked on a monitor, call_stack is not
\* empty and rt is the active frame, the top runtime of the runner at the
\* top of call_stack.
C25_ActiveAtCallback ==
    \A i \in 1..Len(last.seen) :
        last.seen[i].monitors > 0 => last.seen[i].active = last.seen[i].rt

\* The errors of a nested dispatch and of the return of a nested frame.
DispatchErrors ==
    { "World:no_callee", "World:unsupported", "World:not_implemented",
      "World:overflow", "World:in_use" }

\* C26: in every state in which run() has ended by raising one of these
\* errors, every address of call_stack is deployed and occurs in call_stack
\* as many times as its runner has runtimes, so that a later run() finds the
\* frame to step.
C26_InvariantAfterError ==
    (pc = "idle" /\ ret \in DispatchErrors) =>
        /\ Correspondence
        /\ call_stack # << >> => LookupError(World, Top(call_stack)) = ""

\* C27: run() returns EXIT if and only if tx_queue and call_stack are both
\* empty when it returns; when it returns another stop code, call_stack is
\* not empty and the frame that stopped is still the top runtime of the
\* runner at the top of call_stack.
C27_ReturnedStop ==
    [][(pc = "loop" /\ pc' = "idle" /\ ret' \in StopCodes) =>
          /\ ret' = "EXIT" <=> (tx_queue' = << >> /\ call_stack' = << >>)
          /\ ret' # "EXIT" =>
                /\ call_stack' # << >>
                /\ Top(call_stack') \in DOMAIN contracts'
                /\ contracts'[Top(call_stack')].runtime_stack # << >>
                /\ Top(contracts'[Top(call_stack')].runtime_stack).id
                      = last'.stepped
                /\ last'.stepped # 0
      ]_vars

C27_Witness ==
    /\ pc = "idle" /\ ret = "HOOK" /\ last.op = "break"
    /\ Len(call_stack) >= 2 /\ tx_queue # << >>
    /\ current_runtime(World, Top(call_stack)).id = last.stepped

\* C28: an iteration that dequeues a transaction whose recipient has no
\* contract ends run() with the World error; no runtime is pushed, call_stack
\* is unchanged, no monitor is called and no block increment is applied; the
\* transaction has left tx_queue and is counted in current_tx_num.  No
\* transaction is dequeued twice: a later run() starts the next one.
C28_MissingRecipient ==
    [][/\ ( /\ pc = "loop" /\ call_stack = << >> /\ tx_queue # << >>
            /\ Head(tx_queue).recipient \notin DOMAIN contracts ) =>
              /\ pc' = "idle" /\ ret' = "World:no_recipient"
              /\ contracts' = contracts
              /\ hist'.frames = hist.frames
              /\ call_stack' = call_stack
              /\ received' = received
              /\ events' = events
              /\ root_engine' = root_engine
              /\ tx_queue' = Tail(tx_queue)
              /\ current_tx' = Head(tx_queue)
              /\ current_tx_num' = current_tx_num + 1
       /\ (pc = "loop" /\ call_stack = << >> /\ tx_queue # << >>) =>
              /\ current_tx' = Head(tx_queue)
              /\ \A i \in 1..Len(hist.dequeued) :
                     hist.dequeued[i] # current_tx'.id
      ]_vars

\* The second transaction is running in the only frame ever created, with a
\* monitor attached: the first one failed for its recipient.
C28_Witness ==
    /\ hist.raised = 1 /\ hist.frames = 1
    /\ Len(hist.dequeued) = 2 /\ last.started = hist.dequeued[2]
    /\ last.pushed # 0 /\ call_stack # << >>
    /\ \E m \in MonitorIds :
          /\ \E i \in 1..Len(monitors) : monitors[i] = m
          /\ received[m] = [transaction |-> 1, new_runtime |-> 1]

\* Every runner's runtime_stack is empty.
NoRuntimeLeft(cs) == \A a \in DOMAIN cs : cs[a].runtime_stack = << >>

\* C29: a call of run() eventually returns; when it returns with no error
\* ever raised, its frames having stopped only with EXIT or with an outgoing
\* transaction, it returns EXIT with tx_queue empty, call_stack empty and
\* every runner's runtime_stack empty.
C29_Liveness ==
    /\ (pc = "loop") ~> (pc = "idle")
    /\ [][(/\ pc = "loop" /\ pc' = "idle"
           /\ hist'.raised = 0 /\ last'.op # "break") =>
             /\ ret' = "EXIT"
             /\ tx_queue' = << >>
             /\ call_stack' = << >>
             /\ NoRuntimeLeft(contracts')
         ]_vars

C29_Witness ==
    /\ pc = "idle" /\ ret = "EXIT" /\ hist.raised = 0 /\ hist.broke = 0
    /\ Len(hist.dequeued) = 2 /\ hist.dispatched >= 1
    /\ tx_queue = << >> /\ call_stack = << >>
    /\ NoRuntimeLeft(contracts)

\* ---- the corpus bridge
\* The arguments of the transaction as they were read from the file.
OriginalArgs ==
    IF Len(bridge.original["_call"].contents) > 1
    THEN bridge.original["_call"].contents[2]
    ELSE << >>

\* C17: update_tx does not modify its input: after it returns, the dict it
\* was given, with its "_call" tree and its "_delay" list, has the value it
\* had before the call.
C17_InputUnmodified ==
    bridge.pc = "updated" =>
        JsonValue(bridge.tx, bridge.heap) = bridge.original

\* C18: for every transaction load_tx accepts, update_tx with a model that
\* holds no variable returns a transaction equal to its input, every key
\* kept.
C18_EmptyModelRoundTrip ==
    ( /\ bridge.pc = "updated"
      /\ DOMAIN bridge.new_model = {}
      /\ load_tx(bridge.original, tx1).err = "" ) =>
        /\ bridge.updated.err = ""
        /\ DOMAIN bridge.updated.ret = Keys
        /\ JsonValue(bridge.updated.ret, bridge.heap) = bridge.original

\* C19: update_argument leaves a scalar argument as it is, and raises
\* nothing, when the model holds no variable with exactly the name of that
\* argument.
C19_ExactName ==
    bridge.pc = "updated" =>
        \A i \in 1..Len(OriginalArgs) :
            ( /\ OriginalArgs[i].tag \in Scalars
              /\ ~ contains(bridge.new_model, top_arg_name(tx1, i - 1)) ) =>
                update_argument(OriginalArgs[i], top_arg_name(tx1, i - 1),
                                bridge.new_model)
                    = [arg |-> OriginalArgs[i], err |-> ""]

\* C20: an AbiAddress argument whose variable is in the model is written as
\* 0x followed by exactly 40 hexadecimal digits that encode the value.
C20_AddressFormat ==
    ( bridge.pc = "updated" /\ bridge.updated.err = "" ) =>
        \A i \in 1..Len(OriginalArgs) :
            ( /\ OriginalArgs[i].tag = "AbiAddress"
              /\ contains(bridge.new_model, top_arg_name(tx1, i - 1)) ) =>
                LET written == bridge.heap.call.contents[2][i].contents
                IN  /\ Len(written) = AddressChars + 2
                    /\ SubSeq(written, 1, 2) = << "0", "x" >>
                    /\ int(written, 16)
                          = bridge.new_model[top_arg_name(tx1, i - 1)]

\* ---- the filename allocator
\* The numbers below num_max whose file does not exist.
FreeNumbers(files) ==
    { n \in 0..(num_max - 1) : ~ path_exists(files, n) }

\* C21: get_available_filename returns the name with the smallest number
\* below 100000 whose file does not exist, whenever there is one, and fails
\* with a Generic error, returning no name, exactly when the files of all
\* the numbers 0..99999 exist.
C21_SmallestFree ==
    /\ bridge.pc = "returned" =>
          /\ bridge.err = ""
          /\ bridge.num \in FreeNumbers(bridge.files)
          /\ \A n \in FreeNumbers(bridge.files) : bridge.num <= n
          /\ bridge.returned = filename(NEW_INPUT_PREFIX, bridge.num, TxtSuffix)
    /\ bridge.pc = "raised" =>
          /\ bridge.err = "Generic:no_filename"
          /\ bridge.returned = << >>
          /\ FreeNumbers(bridge.files) = {}

C21_Witness ==
    /\ bridge.pc = "returned"
    /\ bridge.files = [upto |-> 1, also |-> { 2, 3 }]
    /\ bridge.returned = NEW_INPUT_PREFIX \o << "_", "1", ".", "t", "x", "t" >>

\* The type a type descriptor of the JSON stands for.
DescribedType(type) ==
    IF type.tag = "AbiUIntType"
    THEN << "u", "i", "n", "t" >> \o str(type.contents)
    ELSE << "b", "o", "o", "l" >>

Tags == Scalars \cup { "AbiArray", "AbiArrayDynamic", "AbiTuple" }

\* The elements of an argument that has elements.
Elements(arg) ==
    IF arg.tag = "AbiArray" THEN arg.contents[3]
    ELSE IF arg.tag = "AbiArrayDynamic" THEN arg.contents[2]
    ELSE IF arg.tag = "AbiTuple" THEN arg.contents
    ELSE << >>

RECURSIVE UnknownTag(_)
UnknownTag(arg) ==
    \/ arg.tag \notin Tags
    \/ \E i \in 1..Len(Elements(arg)) : UnknownTag(Elements(arg)[i])

\* The ABI type string of a well-formed argument, built from its tags.
RECURSIVE AbiTypeString(_)
AbiTypeString(arg) ==
    IF arg.tag = "AbiUInt" THEN << "u", "i", "n", "t" >> \o str(arg.contents[1])
    ELSE IF arg.tag = "AbiInt" THEN << "i", "n", "t" >> \o str(arg.contents[1])
    ELSE IF arg.tag = "AbiAddress" THEN << "a", "d", "d", "r", "e", "s", "s" >>
    ELSE IF arg.tag = "AbiBool" THEN << "b", "o", "o", "l" >>
    ELSE IF arg.tag = "AbiArray"
    THEN DescribedType(arg.contents[2]) \o << "[" >> \o str(arg.contents[1])
                                        \o << "]" >>
    ELSE IF arg.tag = "AbiArrayDynamic"
    THEN DescribedType(arg.contents[1]) \o << "[", "]" >>
    ELSE << "(" >>
         \o join([i \in 1..Len(arg.contents) |-> AbiTypeString(arg.contents[i])])
         \o << ")" >>

\* C22: for every well-formed argument tree translate_argument returns the
\* ABI type string built from the tags, arrays with no element included, and
\* an unknown tag anywhere in the tree raises an Echidna error.
C22_TypeString ==
    bridge.pc = "loaded" =>
        \A i \in 1..Len(OriginalArgs) :
            IF UnknownTag(OriginalArgs[i])
            THEN translate_argument(OriginalArgs[i]).err
                    = "Echidna:unsupported_argument"
            ELSE translate_argument(OriginalArgs[i])
                    = [type |-> AbiTypeString(OriginalArgs[i]), err |-> ""]

====
